---- MODULE Spec2Model ----
(***************************************************************************)
(* Manifest-based pipeline cache of src/experiments: cache.py (Manifest,   *)
(* compute_expected_files, cleanup_orphans, binary_hash), the pipeline     *)
(* driver run_experiments.py (main and its stage functions) and the plot   *)
(* script's use of the manifest (plot_results.py main).                    *)
(*                                                                         *)
(* A fingerprint is modelled as <<blob>>, the canonical JSON value that is *)
(* digested (collision-free digest); the empty string is <<>>.             *)
(***************************************************************************)
EXTENDS Integers, Sequences, FiniteSets, TLC

\* ------------------------------------------------------------------ bounds
MaxSeed == 2
MaxBaselines == 1
MaxRuns == 3
MaxEvents == 2
MaxEngine == 2
MaxValue == 2
MaxFiles == 3
MaxWeights == 2

\* ------------------------------------------------------------ output names
Pad2(i) == IF i < 10 THEN "0" \o ToString(i) ELSE ToString(i)

HsaWeightRel(seed) == "weights/hsa/seed-" \o ToString(seed) \o ".txt"
HsaLogRel(seed) == "results/convergence_hsa_seed-" \o ToString(seed) \o ".csv"
CesWeightRel(seed) == "weights/ces/seed-" \o ToString(seed) \o ".txt"
CesLogRel(seed) == "results/convergence_ces_seed-" \o ToString(seed) \o ".csv"
BaselineRel(i) == "weights/baselines/random-" \o Pad2(i) \o ".txt"
EvalRel(tag) == "results/eval_" \o tag \o ".csv"

RECURSIVE ReplaceDash(_)
ReplaceDash(s) ==
    IF Len(s) = 0 THEN ""
    ELSE (IF SubSeq(s, 1, 1) = "-" THEN "_" ELSE SubSeq(s, 1, 1))
         \o ReplaceDash(SubSeq(s, 2, Len(s)))

SweepParams == <<"bandwidth", "iterations", "pitch-adj-rate">>
SweepRel(param) == "results/benchmark_" \o ReplaceDash(param) \o ".csv"
MassRel == "results/optimized_weights.csv"
ConsistencyRel == "results/consistency.csv"
PlotsMarker == "_plots_marker"

StartsWithUnderscore(p) == Len(p) > 0 /\ SubSeq(p, 1, 1) = "_"

Range(s) == {s[i] : i \in DOMAIN s}

\* Python orders strings by code point; these are the characters of the keys
\* and paths that occur, in code point order.
Alphabet == "-./0123456789_abcdefghijklmnopqrstuvwxyz"
CharRank(ch) == CHOOSE i \in 1..Len(Alphabet) : SubSeq(Alphabet, i, i) = ch

RECURSIVE StrLess(_, _)
StrLess(a, b) ==
    IF Len(b) = 0 THEN FALSE
    ELSE IF Len(a) = 0 THEN TRUE
    ELSE IF SubSeq(a, 1, 1) = SubSeq(b, 1, 1)
         THEN StrLess(SubSeq(a, 2, Len(a)), SubSeq(b, 2, Len(b)))
         ELSE CharRank(SubSeq(a, 1, 1)) < CharRank(SubSeq(b, 1, 1))

\* ------------------------------------------------------------ configuration
\* A section that is absent from config.toml is the empty mapping <<>>
\* (cfg.get(name, {}) / a falsy cfg.get(name)).
Absent == <<>>

\* The seed lists considered are in ascending order.
RECURSIVE SortedSeq(_)
SortedSeq(S) ==
    IF S = {} THEN <<>>
    ELSE LET m == CHOOSE x \in S : \A y \in S : x <= y
         IN <<m>> \o SortedSeq(S \ {m})

\* The seed lists with one seed of 1..MaxSeed added to or removed from list s.
OneSeedAway(s) ==
    {SortedSeq(Range(s) \ {x}) : x \in Range(s)}
    \cup {SortedSeq(Range(s) \cup {x}) : x \in (1..MaxSeed) \ Range(s)}

CesSeeds(c) == IF "seeds" \in DOMAIN c.ces THEN c.ces.seeds ELSE c.training.seeds

InitCfg ==
    [training |-> [seeds |-> <<1>>],
     hsa |-> [n_weights |-> 1, iterations |-> 1],
     ces |-> [n_weights |-> 1, iterations |-> 1],
     baselines |-> [random_weights |-> 1, random_seed |-> 1],
     evaluation |-> [sim_length |-> 1],
     sweeps |-> Absent,
     mass_optimize |-> Absent,
     consistency |-> [seed |-> 1]]

Toggle(v) == IF v = 1 THEN 2 ELSE 1

WithCesSeeds(c, s) ==
    [c EXCEPT !.ces = [n_weights |-> @.n_weights, iterations |-> @.iterations, seeds |-> s]]
WithoutCesSeeds(c) ==
    [c EXCEPT !.ces = [n_weights |-> @.n_weights, iterations |-> @.iterations]]

\* The configurations one edit of config.toml away from c.
Edits(c) ==
    {[c EXCEPT !.training.seeds = s] : s \in OneSeedAway(c.training.seeds)}
    \cup {[c EXCEPT !.hsa.iterations = Toggle(@)]}
    \cup (IF "seeds" \in DOMAIN c.ces
          THEN {WithCesSeeds(c, s) : s \in OneSeedAway(c.ces.seeds)} \cup {WithoutCesSeeds(c)}
          ELSE {WithCesSeeds(c, c.training.seeds)})
    \cup {[c EXCEPT !.baselines.random_weights = n] :
            n \in {c.baselines.random_weights - 1, c.baselines.random_weights + 1}
                  \cap (0..MaxBaselines)}
    \cup {[c EXCEPT !.evaluation.sim_length = Toggle(@)]}
    \cup {[c EXCEPT !.sweeps = IF @ = Absent THEN [sim_length |-> 1] ELSE Absent]}
    \cup {[c EXCEPT !.mass_optimize = IF @ = Absent THEN [count |-> 1] ELSE Absent]}
    \cup {[c EXCEPT !.consistency = IF @ = Absent THEN [seed |-> 1] ELSE Absent]}

\* ------------------------------------------------------------- fingerprints
NoHash == <<>>

\* json.dumps(kwargs, sort_keys=True): the mapping with its keys in sorted
\* order, which a TLA+ record is; sha256(...).hexdigest()[:16] is never empty.
ConfigHash(kwargs) == <<kwargs>>

\* ------------------------------------------------------------------ manifest
EmptyManifest == [version |-> 1, binary_hash |-> NoHash, entries |-> <<>>]

ManifestEntry(h, t) == [config_hash |-> h, produced_at |-> t]

Keys(m) == DOMAIN m.entries

\* is_fresh without its third condition: the manifest is believed, the disk is
\* not looked at.
IsFreshByManifestAlone(m, files, rel_path, expected_hash) ==
    rel_path \in Keys(m) /\ m.entries[rel_path].config_hash = expected_hash

\* is_fresh that vouches for nothing.
IsFreshNever(m, files, rel_path, expected_hash) == FALSE

IsFresh(m, files, rel_path, expected_hash) ==
    IF rel_path \notin Keys(m) \/ m.entries[rel_path].config_hash # expected_hash
    THEN FALSE
    ELSE rel_path \in files

\* record that stores an entry without the fingerprint it was given.
RecordWithoutFingerprint(m, rel_path, h, now) ==
    [m EXCEPT !.entries =
        [k \in Keys(m) \cup {rel_path} |->
            IF k = rel_path THEN ManifestEntry(NoHash, now) ELSE m.entries[k]]]

Record(m, rel_path, h, now) ==
    [m EXCEPT !.entries =
        [k \in Keys(m) \cup {rel_path} |->
            IF k = rel_path THEN ManifestEntry(h, now) ELSE m.entries[k]]]

\* hash_of that answers with the sentinel for every identity.
HashOfNothing(m, rel_path) == NoHash

HashOf(m, rel_path) ==
    IF rel_path \in Keys(m) THEN m.entries[rel_path].config_hash ELSE NoHash

\* remove that drops every entry together with the one asked for.
RemoveEverything(m, rel_path) == [m EXCEPT !.entries = <<>>]

Remove(m, rel_path) ==
    [m EXCEPT !.entries = [k \in Keys(m) \ {rel_path} |-> m.entries[k]]]

\* The document of Manifest.save without the engine fingerprint.
SaveJsonEntriesOnly(m) ==
    [version |-> m.version,
     binary_hash |-> NoHash,
     entries |-> [k \in Keys(m) |->
                    [config_hash |-> m.entries[k].config_hash,
                     produced_at |-> m.entries[k].produced_at]]]

\* Manifest.save: the JSON document written to .manifest.json.
SaveJson(m) ==
    [version |-> m.version,
     binary_hash |-> m.binary_hash,
     entries |-> [k \in Keys(m) |->
                    [config_hash |-> m.entries[k].config_hash,
                     produced_at |-> m.entries[k].produced_at]]]

\* The states of .manifest.json: absent, present with the given shape.
\* "valid" carries the document; the other shapes carry none.
FileShapes == {"missing", "invalid_json", "not_object", "entries_not_object",
               "entry_bad_fields", "valid"}
CorruptShapes == FileShapes \ {"missing", "valid"}
NoDocument == SaveJson(EmptyManifest)
MissingFile == [shape |-> "missing", raw |-> NoDocument]
TruncatedFile == [shape |-> "invalid_json", raw |-> NoDocument]
WrittenFile(m) == [shape |-> "valid", raw |-> SaveJson(m)]

\* The exception the body of Manifest.load raises on a file, or "none".
LoadRaises(f) ==
    CASE f.shape = "missing" -> "FileNotFoundError"      \* read_text
      [] f.shape = "invalid_json" -> "JSONDecodeError"   \* json.loads
      [] f.shape = "not_object" -> "AttributeError"      \* raw.get on a list
      [] f.shape = "entries_not_object" -> "AttributeError"  \* [].items()
      [] f.shape = "entry_bad_fields" -> "TypeError"     \* ManifestEntry(**v)
      [] OTHER -> "none"

LoadCaught == {"FileNotFoundError", "JSONDecodeError", "TypeError", "KeyError"}

LoadFails(f) == LoadRaises(f) \notin LoadCaught \cup {"none"}

Load(f) ==
    IF LoadRaises(f) = "none"
    THEN [version |-> f.raw.version,
          binary_hash |-> f.raw.binary_hash,
          entries |-> [k \in DOMAIN f.raw.entries |->
                         ManifestEntry(f.raw.entries[k].config_hash,
                                       f.raw.entries[k].produced_at)]]
    ELSE EmptyManifest

\* ------------------------------------------------- expected outputs, orphans
ComputeExpectedFiles(c) ==
    {HsaWeightRel(s) : s \in Range(c.training.seeds)}
    \cup {HsaLogRel(s) : s \in Range(c.training.seeds)}
    \cup {CesWeightRel(s) : s \in Range(CesSeeds(c))}
    \cup {CesLogRel(s) : s \in Range(CesSeeds(c))}
    \cup {BaselineRel(i) : i \in 0..(c.baselines.random_weights - 1)}
    \cup {EvalRel("hsa"), EvalRel("ces"), EvalRel("random")}
    \cup (IF c.sweeps # Absent THEN {SweepRel(p) : p \in Range(SweepParams)} ELSE {})
    \cup (IF c.mass_optimize # Absent THEN {MassRel} ELSE {})
    \cup (IF c.consistency # Absent THEN {ConsistencyRel} ELSE {})

\* The orphan set without the exclusion of virtual markers.
OrphansWithMarkers(m, expected) == Keys(m) \ expected

Orphans(m, expected) == {p \in Keys(m) \ expected : ~StartsWithUnderscore(p)}

\* cleanup_orphans: the manifest and the files it leaves.
RECURSIVE RemoveEach(_, _)
RemoveEach(m, rels) ==
    IF rels = {} THEN m
    ELSE LET rel_path == CHOOSE p \in rels : TRUE
         IN RemoveEach(Remove(m, rel_path), rels \ {rel_path})

CleanupManifest(m, expected) == RemoveEach(m, Orphans(m, expected))

CleanupDisk(m, files, expected) ==
    [p \in DOMAIN files \ Orphans(m, expected) |-> files[p]]

\* binary_hash(): the first 16 characters of the commit id, "" when git fails.
BinaryHash(commit, git_ok) == IF git_ok THEN <<[commit |-> commit]>> ELSE NoHash

\* --------------------------------------------------- stage fingerprints
HsaHash(seed, c) == ConfigHash([seed |-> seed, hsa |-> c.hsa])
CesHash(seed, c) == ConfigHash([seed |-> seed, ces |-> c.ces])
BaselineHash(c) == ConfigHash([baselines |-> c.baselines, n_weights |-> c.hsa.n_weights])

\* The upstream map with the sentinel for every weight file, whatever the
\* manifest has recorded for it.
UpstreamUnrecorded(m, weight_paths) == [p \in weight_paths |-> NoHash]

Upstream(m, weight_paths) == [p \in weight_paths |-> HashOf(m, p)]
\* run_eval's fingerprint without the upstream fingerprints.
EvalHashOfSettings(m, weight_paths, eval_cfg, n_weights) ==
    ConfigHash([evaluation |-> eval_cfg, n_weights |-> n_weights])

EvalHash(m, weight_paths, eval_cfg, n_weights) ==
    ConfigHash([evaluation |-> eval_cfg, n_weights |-> n_weights,
                upstream |-> Upstream(m, weight_paths)])

SweepHash(param, c) == ConfigHash([sweeps |-> c.sweeps, param |-> param])
MassHash(c) == ConfigHash([mass_optimize |-> c.mass_optimize])
ConsistencyHash(m, weight_path, c) ==
    ConfigHash([consistency |-> c.consistency, n_weights |-> c.hsa.n_weights,
                upstream |-> HashOf(m, weight_path)])

\* The weight files main hands to run_eval under each tag.
EvalWeights(tag, c) ==
    CASE tag = "hsa" -> {HsaWeightRel(s) : s \in Range(c.training.seeds)}
      [] tag = "ces" -> {CesWeightRel(s) : s \in Range(CesSeeds(c))}
      [] OTHER -> {BaselineRel(i) : i \in 0..(c.baselines.random_weights - 1)}
EvalNWeights(tag, c) == IF tag = "ces" THEN c.ces.n_weights ELSE c.hsa.n_weights

\* ------------------------------------------------------------ main's steps
Step(op, arg) == [op |-> op, arg |-> arg]
SeqMap(s, op) == [i \in DOMAIN s |-> Step(op, s[i])]

\* main with the reconciliation ahead of the gate, and nothing after the two.
PlanReconcileFirst(c) == <<Step("cleanup", 0), Step("gate", 0), Step("save", 1)>>

\* The calls of main in program order, for configuration c.
Plan(c) ==
    <<Step("gate", 0), Step("cleanup", 0)>>
    \o SeqMap(c.training.seeds, "train_hsa")
    \o SeqMap(CesSeeds(c), "train_ces")
    \o <<Step("save", 1), Step("baselines", 0), Step("save", 2),
         Step("eval", "hsa"), Step("eval", "ces"), Step("eval", "random"),
         Step("save", 3)>>
    \o (IF c.sweeps # Absent
        THEN SeqMap(SweepParams, "sweep") \o <<Step("save", 4)>> ELSE <<>>)
    \o (IF c.mass_optimize # Absent
        THEN <<Step("mass", 0), Step("save", 5)>> ELSE <<>>)
    \o (IF c.consistency # Absent /\ c.training.seeds # <<>>
        THEN <<Step("consistency", 0), Step("save", 6)>> ELSE <<>>)

\* ------------------------------------------------------------------- state
VARIABLES
    cfg,          \* config.toml
    engine,       \* the commit git log reports for the engine's sources
    disk,         \* output files under BASE_DIR: path -> fingerprint of the
                  \*   producer invocation that wrote the file
    manifestFile, \* .manifest.json
    manifest,     \* main's Manifest object
    pc,           \* the calls main has still to make, in order; <<>>: no run in progress
    runs,         \* pipeline runs started so far; the clock of produced_at
    events,       \* things that happened to the pipeline from outside
    invoked,      \* outputs whose producer this run invoked (run_cmd, write_weights)
    skipped,      \* outputs this run skipped as fresh, with the fingerprint computed
    saved,        \* [paths: outputs invoked before this run's last completed save,
                  \*  phases: the phases whose save completed]
    deleted,      \* files this run's cleanup_orphans unlinked
    bh,           \* main's bh: what binary_hash() returned in this run
    gate,         \* what this run's gate did: "none", "cleared", "kept"
    prev,         \* how the previous run ended
    probe         \* a function called on its own, outside a run: its arguments
                  \*   and what it has produced (config_hash on two argument
                  \*   values, create_baselines' loop over its files)

vars == <<cfg, engine, disk, manifestFile, manifest, pc, runs, events,
          invoked, skipped, saved, deleted, bh, gate, prev, probe>>

NoRun == [status |-> "none", phases |-> 0, inflight |-> {}, binary_hash |-> NoHash,
          quiet |-> FALSE, touched |-> FALSE]
NothingSaved == [paths |-> {}, phases |-> 0]
NoProbe == [args |-> <<>>, out |-> <<>>]

Init ==
    /\ cfg = InitCfg
    /\ engine = 1
    /\ disk = <<>>
    /\ manifestFile = MissingFile
    /\ manifest = EmptyManifest
    /\ pc = <<>>
    /\ runs = 0
    /\ events = 0
    /\ invoked = {}
    /\ skipped = {}
    /\ saved = NothingSaved
    /\ deleted = {}
    /\ bh = NoHash
    /\ gate = "none"
    /\ prev = NoRun
    /\ probe = NoProbe

Running == pc # <<>>
Current == Head(pc)
At(op) == Running /\ Current.op = op
Files == DOMAIN disk
Now == runs

Skip(paths, h) == {[path |-> p, h |-> h] : p \in paths}
SkippedPaths == {s.path : s \in skipped}
WriteFiles(files, paths, h) == [p \in DOMAIN files \cup paths |-> IF p \in paths THEN h ELSE files[p]]

\* ------------------------------------------------------------ run_experiments
\* main, lines 372-374: load_config, ensure_dirs, Manifest.load.
StartRun ==
    /\ pc = <<>>
    /\ runs < MaxRuns
    /\ ~LoadFails(manifestFile)
    /\ manifest' = Load(manifestFile)
    /\ pc' = Plan(cfg)
    /\ runs' = runs + 1
    /\ invoked' = {}
    /\ skipped' = {}
    /\ saved' = NothingSaved
    /\ deleted' = {}
    /\ bh' = NoHash
    /\ gate' = "none"
    /\ prev' = [prev EXCEPT !.touched = FALSE]
    /\ UNCHANGED <<probe, cfg, engine, disk, manifestFile, events>>

\* Manifest.load raises an exception its except clause does not name: main ends.
StartRunLoadError ==
    /\ pc = <<>>
    /\ runs < MaxRuns
    /\ LoadFails(manifestFile)
    /\ runs' = runs + 1
    /\ prev' = [NoRun EXCEPT !.status = "load_error"]
    /\ UNCHANGED <<probe, cfg, engine, disk, manifestFile, manifest, pc, events,
                   invoked, skipped, saved, deleted, bh, gate>>

\* main, lines 377-381: the global invalidation gate.
\* The gate that stores the engine fingerprint only when one was computed.
GateManifestStoringComputed(m, computed) ==
    [version |-> m.version,
     binary_hash |-> IF computed = NoHash THEN m.binary_hash ELSE computed,
     entries |-> IF computed # NoHash /\ m.binary_hash # computed THEN <<>> ELSE m.entries]

\* The gate without the invalidation: the engine fingerprint is stored, the
\* entries stay.
GateManifestKeeping(m, computed) ==
    [version |-> m.version, binary_hash |-> computed, entries |-> m.entries]

\* The gate without the test that a fingerprint was computed: any difference
\* from the stored fingerprint clears the entries.
GateManifestOnAnyDifference(m, computed) ==
    [version |-> m.version,
     binary_hash |-> computed,
     entries |-> IF m.binary_hash # computed THEN <<>> ELSE m.entries]

GateManifest(m, computed) ==
    [version |-> m.version,
     binary_hash |-> computed,
     entries |-> IF computed # NoHash /\ m.binary_hash # computed THEN <<>> ELSE m.entries]

Gate ==
    /\ At("gate")
    /\ \E git_ok \in BOOLEAN :
        /\ git_ok \/ events < MaxEvents
        /\ events' = IF git_ok THEN events ELSE events + 1
        /\ bh' = BinaryHash(engine, git_ok)
    /\ manifest' = GateManifest(manifest, bh')
    /\ gate' = IF manifest'.entries = manifest.entries THEN "kept" ELSE "cleared"
    /\ prev' = [prev EXCEPT !.quiet = @ /\ bh' = prev.binary_hash]
    /\ pc' = Tail(pc)
    /\ UNCHANGED <<probe, cfg, engine, disk, manifestFile, runs, invoked, skipped, saved, deleted>>

\* main, line 384: cleanup_orphans(manifest, compute_expected_files(cfg)).
CleanupOrphans ==
    /\ At("cleanup")
    /\ LET expected == ComputeExpectedFiles(cfg) IN
        /\ manifest' = CleanupManifest(manifest, expected)
        /\ disk' = CleanupDisk(manifest, disk, expected)
        /\ deleted' = Orphans(manifest, expected) \cap Files
    /\ pc' = Tail(pc)
    /\ UNCHANGED <<probe, cfg, engine, manifestFile, runs, events, invoked, skipped, saved, bh, gate, prev>>

\* cleanup_orphans when full.unlink() raises on orphan p (a file that cannot be
\* removed): the orphans that sorted() puts before p are gone, the exception
\* leaves cleanup_orphans and main, nothing is saved.
CleanupOrphansUnlinkFails ==
    /\ At("cleanup")
    /\ events < MaxEvents
    /\ \E p \in Orphans(manifest, ComputeExpectedFiles(cfg)) \cap Files :
          LET before == {q \in Orphans(manifest, ComputeExpectedFiles(cfg)) : StrLess(q, p)}
          IN disk' = [q \in Files \ before |-> disk[q]]
    /\ pc' = <<>>
    /\ manifest' = EmptyManifest
    /\ invoked' = {}
    /\ skipped' = {}
    /\ deleted' = {}
    /\ bh' = NoHash
    /\ gate' = "none"
    /\ saved' = NothingSaved
    /\ prev' = [status |-> "unlink_error", phases |-> 0, inflight |-> {},
                binary_hash |-> bh, quiet |-> FALSE, touched |-> FALSE]
    /\ events' = events + 1
    /\ UNCHANGED <<probe, cfg, engine, manifestFile, runs>>

RECURSIVE RecordEach(_, _, _, _)
RecordEach(m, rels, h, now) ==
    IF rels = <<>> THEN m
    ELSE RecordEach(Record(m, Head(rels), h, now), Tail(rels), h, now)

\* The protocol every stage function follows for its outputs `rels` and its
\* fingerprint h: return early when every output is fresh, else run the
\* producer, which writes the outputs, and record each of them.
Stage(rels, h) ==
    IF \A p \in Range(rels) : IsFresh(manifest, Files, p, h)
    THEN /\ skipped' = skipped \cup Skip(Range(rels), h)
         /\ UNCHANGED <<manifest, disk, invoked>>
    ELSE /\ disk' = WriteFiles(disk, Range(rels), h)
         /\ manifest' = RecordEach(manifest, rels, h, Now)
         /\ invoked' = invoked \cup Range(rels)
         /\ UNCHANGED skipped

StageFrame ==
    /\ pc' = Tail(pc)
    /\ UNCHANGED <<probe, cfg, engine, manifestFile, runs, events, saved, deleted, bh, gate, prev>>

TrainHsa ==
    /\ At("train_hsa")
    /\ Stage(<<HsaWeightRel(Current.arg), HsaLogRel(Current.arg)>>, HsaHash(Current.arg, cfg))
    /\ StageFrame

TrainCes ==
    /\ At("train_ces")
    /\ Stage(<<CesWeightRel(Current.arg), CesLogRel(Current.arg)>>, CesHash(Current.arg, cfg))
    /\ StageFrame

\* create_baselines: each file is skipped or written on its own.
CreateBaselines ==
    /\ At("baselines")
    /\ LET h == BaselineHash(cfg)
           all == {BaselineRel(i) : i \in 0..(cfg.baselines.random_weights - 1)}
           fresh == {p \in all : IsFresh(manifest, Files, p, h)}
           stale == all \ fresh
       IN /\ skipped' = skipped \cup Skip(fresh, h)
          /\ disk' = WriteFiles(disk, stale, h)
          /\ manifest' = [manifest EXCEPT !.entries =
                [k \in Keys(manifest) \cup stale |->
                    IF k \in stale THEN ManifestEntry(h, Now) ELSE manifest.entries[k]]]
          /\ invoked' = invoked \cup stale
    /\ StageFrame

\* run_eval(tag, weight_paths, eval_cfg, n_weights, manifest).
RunEval ==
    /\ At("eval")
    /\ LET tag == Current.arg
           weight_paths == EvalWeights(tag, cfg)
       IN IF weight_paths = {}
          THEN UNCHANGED <<manifest, disk, invoked, skipped>>
          ELSE Stage(<<EvalRel(tag)>>,
                     EvalHash(manifest, weight_paths, cfg.evaluation, EvalNWeights(tag, cfg)))
    /\ StageFrame

RunSweep ==
    /\ At("sweep")
    /\ Stage(<<SweepRel(Current.arg)>>, SweepHash(Current.arg, cfg))
    /\ StageFrame

RunMassOptimize ==
    /\ At("mass")
    /\ Stage(<<MassRel>>, MassHash(cfg))
    /\ StageFrame

\* run_consistency_test(hsa_weights[0], ...).
RunConsistencyTest ==
    /\ At("consistency")
    /\ Stage(<<ConsistencyRel>>,
             ConsistencyHash(manifest, HsaWeightRel(cfg.training.seeds[1]), cfg))
    /\ StageFrame

\* manifest.save() at the end of a phase.
Save ==
    /\ At("save")
    /\ manifestFile' = WrittenFile(manifest)
    /\ IF Tail(pc) = <<>>
       THEN /\ pc' = <<>>
            /\ manifest' = EmptyManifest
            /\ invoked' = {}
            /\ skipped' = {}
            /\ deleted' = {}
            /\ bh' = NoHash
            /\ gate' = "none"
            /\ saved' = NothingSaved
            /\ prev' = [status |-> "completed", phases |-> Current.arg, inflight |-> {},
                        binary_hash |-> bh, quiet |-> TRUE, touched |-> FALSE]
       ELSE /\ pc' = Tail(pc)
            /\ saved' = [paths |-> invoked, phases |-> Current.arg]
            /\ UNCHANGED <<manifest, invoked, skipped, deleted, bh, gate, prev>>
    /\ UNCHANGED <<probe, cfg, engine, disk, runs, events>>

\* The run ends abnormally before the call it was about to make: the process is
\* killed, or the call raises (run_cmd's check=True on a failing producer).
Aborted ==
    /\ pc' = <<>>
    /\ manifest' = EmptyManifest
    /\ invoked' = {}
    /\ skipped' = {}
    /\ deleted' = {}
    /\ bh' = NoHash
    /\ gate' = "none"
    /\ saved' = NothingSaved
    /\ prev' = [status |-> "aborted", phases |-> saved.phases,
                inflight |-> invoked \ saved.paths,
                binary_hash |-> bh, quiet |-> TRUE, touched |-> FALSE]
    /\ events' = events + 1
    /\ UNCHANGED <<probe, cfg, engine, disk, runs>>

Abort ==
    /\ Running
    /\ events < MaxEvents
    /\ Aborted
    /\ UNCHANGED manifestFile

\* The run ends inside manifest.save(): write_text has opened, and so truncated,
\* .manifest.json and has not written the document.
AbortInSave ==
    /\ At("save")
    /\ events < MaxEvents
    /\ manifestFile' = TruncatedFile
    /\ Aborted

\* ------------------------------------------------------------- plot_results
PlotScript == 1
PlotInputsHash(m) ==
    ConfigHash([entries |-> [k \in Keys(m) |-> m.entries[k].config_hash],
                script |-> PlotScript])

\* plot_results.main between two pipeline runs.
PlotRun ==
    /\ pc = <<>>
    /\ runs < MaxRuns
    /\ events < MaxEvents
    /\ ~LoadFails(manifestFile)
    /\ LET m == Load(manifestFile)
           inputs_hash == PlotInputsHash(m)
       IN manifestFile' = IF IsFresh(m, Files, PlotsMarker, inputs_hash)
                          THEN manifestFile
                          ELSE WrittenFile(Record(m, PlotsMarker, inputs_hash, Now))
    /\ events' = events + 1
    /\ ~prev.touched
    /\ prev' = [prev EXCEPT !.quiet = FALSE, !.touched = TRUE]
    /\ UNCHANGED <<probe, cfg, engine, disk, manifest, pc, runs, invoked, skipped, saved,
                   deleted, bh, gate>>

\* ------------------------------------------------------------- environment
\* Something happens to the pipeline's files between two runs.
Outside ==
    /\ pc = <<>>
    /\ runs < MaxRuns
    /\ events < MaxEvents
    /\ events' = events + 1
    /\ ~prev.touched
    /\ prev' = [prev EXCEPT !.quiet = FALSE, !.touched = TRUE]
    /\ UNCHANGED <<probe, manifest, pc, runs, invoked, skipped, saved, deleted, bh, gate>>

EditConfig ==
    /\ Outside
    /\ cfg' \in Edits(cfg)
    /\ UNCHANGED <<engine, disk, manifestFile>>

DeleteFile ==
    /\ Outside
    /\ \E p \in Files : disk' = [q \in Files \ {p} |-> disk[q]]
    /\ UNCHANGED <<cfg, engine, manifestFile>>

ChangeEngine ==
    /\ Outside
    /\ engine < MaxEngine
    /\ engine' = engine + 1
    /\ UNCHANGED <<cfg, disk, manifestFile>>

CorruptManifest ==
    /\ Outside
    /\ manifestFile.shape = "valid"
    /\ \E shape \in CorruptShapes : manifestFile' = [shape |-> shape, raw |-> NoDocument]
    /\ UNCHANGED <<cfg, engine, disk>>

Main ==
    \/ StartRun
    \/ StartRunLoadError
    \/ Gate
    \/ CleanupOrphans
    \/ TrainHsa
    \/ TrainCes
    \/ CreateBaselines
    \/ RunEval
    \/ RunSweep
    \/ RunMassOptimize
    \/ RunConsistencyTest
    \/ Save

Next ==
    \/ Main
    \/ CleanupOrphansUnlinkFails
    \/ Abort
    \/ AbortInSave
    \/ PlotRun
    \/ EditConfig
    \/ DeleteFile
    \/ ChangeEngine
    \/ CorruptManifest

Spec == Init /\ [][Next]_vars

\* Configuration edits and aborted runs only, with one more edit allowed: a
\* setting changed and later changed back.
RevertHsa ==
    /\ pc = <<>>
    /\ runs < MaxRuns
    /\ events = MaxEvents
    /\ ~prev.touched
    /\ cfg' = [cfg EXCEPT !.hsa.iterations = Toggle(@)]
    /\ events' = events + 1
    /\ prev' = [prev EXCEPT !.quiet = FALSE, !.touched = TRUE]
    /\ UNCHANGED <<probe, engine, disk, manifestFile, manifest, pc, runs, invoked, skipped,
                   saved, deleted, bh, gate>>

NextRevert ==
    \/ StartRun
    \/ Gate
    \/ CleanupOrphans
    \/ TrainHsa
    \/ TrainCes
    \/ CreateBaselines
    \/ RunEval
    \/ RunSweep
    \/ RunMassOptimize
    \/ RunConsistencyTest
    \/ Save
    \/ Abort
    \/ EditConfig
    \/ RevertHsa

SpecRevert == Init /\ [][NextRevert]_vars

\* Completed runs with, between two of them, an edit of config.toml alone or
\* together with a new commit of the engine's sources.
EditConfigAndEngine ==
    /\ Outside
    /\ engine < MaxEngine
    /\ engine' = engine + 1
    /\ cfg' \in Edits(cfg)
    /\ UNCHANGED <<disk, manifestFile>>

NextUpgrade ==
    \/ StartRun
    \/ Gate
    \/ CleanupOrphans
    \/ TrainHsa
    \/ TrainCes
    \/ CreateBaselines
    \/ RunEval
    \/ RunSweep
    \/ RunMassOptimize
    \/ RunConsistencyTest
    \/ Save
    \/ EditConfig
    \/ EditConfigAndEngine

SpecUpgrade == Init /\ [][NextUpgrade]_vars

\* Completed runs of a configuration with or without its own [ces].seeds, with
\* nothing between two runs but a seed added to or removed from a seed list.
SeedEdits(c) ==
    {[c EXCEPT !.training.seeds = s] : s \in OneSeedAway(c.training.seeds)}
    \cup (IF "seeds" \in DOMAIN c.ces
          THEN {WithCesSeeds(c, s) : s \in OneSeedAway(c.ces.seeds)}
          ELSE {})

EditSeeds ==
    /\ Outside
    /\ cfg' \in SeedEdits(cfg)
    /\ UNCHANGED <<engine, disk, manifestFile>>

InitSeeds ==
    /\ cfg \in {InitCfg, WithCesSeeds(InitCfg, InitCfg.training.seeds)}
    /\ engine = 1
    /\ disk = <<>>
    /\ manifestFile = MissingFile
    /\ manifest = EmptyManifest
    /\ pc = <<>>
    /\ runs = 0
    /\ events = 0
    /\ invoked = {}
    /\ skipped = {}
    /\ saved = NothingSaved
    /\ deleted = {}
    /\ bh = NoHash
    /\ gate = "none"
    /\ prev = NoRun
    /\ probe = NoProbe

NextSeeds ==
    \/ StartRun
    \/ Gate
    \/ CleanupOrphans
    \/ TrainHsa
    \/ TrainCes
    \/ CreateBaselines
    \/ RunEval
    \/ RunConsistencyTest
    \/ Save
    \/ EditSeeds

SpecSeeds == InitSeeds /\ [][NextSeeds]_vars

\* --------------------------------------------------- config_hash on JSON
\* Python values handed to json.dumps: an int, a str, a list, a dict, which
\* keeps its items in insertion order, and an object of a type json has no
\* encoding for (a pathlib.Path, say), known here by the text str() gives.
JInt(n) == [kind |-> "int", num |-> n, text |-> "", items |-> <<>>]
JStr(s) == [kind |-> "str", num |-> 0, text |-> s, items |-> <<>>]
JOther(s) == [kind |-> "other", num |-> 0, text |-> s, items |-> <<>>]
JDict(items) == [kind |-> "dict", num |-> 0, text |-> "", items |-> items]
JList(elems) ==
    [kind |-> "list", num |-> 0, text |-> "",
     items |-> [i \in DOMAIN elems |-> [key |-> "", val |-> elems[i]]]]
Item(k, v) == [key |-> k, val |-> v]
ItemKeys(items) == {items[i].key : i \in DOMAIN items}
ItemAt(items, k) == items[CHOOSE i \in DOMAIN items : items[i].key = k].val

\* The items of a dict as they were inserted: dumps without sort_keys.
InsertionOrder(items) == items

\* sort_keys=True: the items of a dict in ascending order of their keys.
RECURSIVE SortItems(_)
SortItems(items) ==
    IF items = <<>> THEN <<>>
    ELSE LET first == CHOOSE i \in DOMAIN items :
                         \A j \in DOMAIN items \ {i} : StrLess(items[i].key, items[j].key)
         IN <<items[first]>>
            \o SortItems([j \in 1..(Len(items) - 1) |->
                             IF j < first THEN items[j] ELSE items[j + 1]])

\* json.dumps(v, sort_keys=True) with the default separators.
\* A str written without its quotes.
DumpStrBare(s) == s

\* A str as JSON text; the strings tried hold no character that is escaped.
DumpStr(s) == "\"" \o s \o "\""

\* default=str: what json.dumps encodes in place of an object it has no
\* encoding for.
DefaultStr(v) == JStr(v.text)

\* The outcome of a config_hash call that raises.
TypeErrorRaised == <<"TypeError">>

RECURSIVE JsonDumps(_)
RECURSIVE DumpItems(_)
RECURSIVE DumpElems(_)
DumpElems(items) ==
    IF items = <<>> THEN ""
    ELSE JsonDumps(items[1].val)
         \o (IF Len(items) > 1 THEN ", " ELSE "")
         \o DumpElems(Tail(items))
DumpItems(items) ==
    IF items = <<>> THEN ""
    ELSE "\"" \o items[1].key \o "\": " \o JsonDumps(items[1].val)
         \o (IF Len(items) > 1 THEN ", " ELSE "")
         \o DumpItems(Tail(items))
JsonDumps(v) ==
    CASE v.kind = "int" -> ToString(v.num)
      [] v.kind = "str" -> DumpStr(v.text)
      [] v.kind = "other" -> JsonDumps(DefaultStr(v))
      [] v.kind = "list" -> "[" \o DumpElems(v.items) \o "]"
      [] v.kind = "dict" -> "{" \o DumpItems(SortItems(v.items)) \o "}"

\* Manifest.config_hash(**kwargs) on the keyword arguments in call order; the
\* digest of the text is modelled as the text.
ConfigHashJson(kwargs) == <<JsonDumps(JDict(kwargs))>>

\* Equality of Python values: ints by value, strs and objects by their text,
\* lists element by element, dicts by their keys and the values under them,
\* whatever the insertion order.
RECURSIVE PyEqual(_, _)
PyEqual(v, w) ==
    /\ v.kind = w.kind
    /\ v.kind = "int" => v.num = w.num
    /\ v.kind \in {"str", "other"} => v.text = w.text
    /\ v.kind = "list" =>
          /\ Len(v.items) = Len(w.items)
          /\ \A i \in DOMAIN v.items : PyEqual(v.items[i].val, w.items[i].val)
    /\ v.kind = "dict" =>
          /\ ItemKeys(v.items) = ItemKeys(w.items)
          /\ \A k \in ItemKeys(v.items) : PyEqual(ItemAt(v.items, k), ItemAt(w.items, k))

\* A value json can encode by itself: no object without an encoding in it.
RECURSIVE Representable(_)
Representable(v) ==
    /\ v.kind # "other"
    /\ \A i \in DOMAIN v.items : Representable(v.items[i].val)

\* The argument values tried: keys from HashKeys, ints up to MaxValue, the str
\* "1", a one-element list, an object whose str() is "1", dicts nested two
\* deep, every insertion order.
HashKeys == {"iterations", "n_weights"}
ItemLists(keys, vals) ==
    {<<>>}
    \cup {<<Item(k, v)>> : k \in keys, v \in vals}
    \cup {<<Item(k[1], v[1]), Item(k[2], v[2])>> :
            k \in {kk \in keys \X keys : kk[1] # kk[2]}, v \in vals \X vals}
JsonLeaves ==
    {JInt(n) : n \in 1..MaxValue} \cup {JStr("1"), JOther("1"), JList(<<JInt(1)>>)}
JsonSections == {JDict(items) : items \in ItemLists(HashKeys, {JInt(1)})}
KwargsTried == ItemLists({"hsa", "seed"}, JsonLeaves \cup JsonSections)

\* config_hash called on its own on two argument values: no pipeline run.
pipeline == <<cfg, engine, disk, manifestFile, manifest, pc, runs, events,
              invoked, skipped, saved, deleted, bh, gate, prev>>

InitHash ==
    /\ cfg = InitCfg
    /\ engine = 1
    /\ disk = <<>>
    /\ manifestFile = MissingFile
    /\ manifest = EmptyManifest
    /\ pc = <<>>
    /\ runs = 0
    /\ events = 0
    /\ invoked = {}
    /\ skipped = {}
    /\ saved = NothingSaved
    /\ deleted = {}
    /\ bh = NoHash
    /\ gate = "none"
    /\ prev = NoRun
    /\ probe \in {[args |-> <<v, w>>, out |-> <<>>] : v, w \in KwargsTried}

ConfigHashCall ==
    /\ probe.args # <<>>
    /\ probe.out = <<>>
    /\ probe' = [probe EXCEPT !.out = <<ConfigHashJson(probe.args[1]),
                                        ConfigHashJson(probe.args[2])>>]
    /\ UNCHANGED pipeline

NextHash == ConfigHashCall

SpecHash == InitHash /\ [][NextHash]_vars

\* ------------------------------------------- create_baselines' generator
\* random.Random(random_seed): the k-th number the generator seeded with
\* random_seed hands out, k counted from 0; rng.uniform(-1.0, 1.0) takes one.
Draw(random_seed, k) == [random_seed |-> random_seed, k |-> k]

\* A skipped file that leaves the generator where it is.
SkipDrawsNone(n_weights) == 0

\* The numbers the loop takes from the generator for a file it skips.
SkipDraws(n_weights) == n_weights

\* The weights list of a file written when the generator has handed out
\* `drawn` numbers.
Weights(random_seed, n_weights, drawn) ==
    [j \in 1..n_weights |-> Draw(random_seed, drawn + j - 1)]

\* create_baselines called on its own: baselines.random_seed, n_weights,
\* baselines.random_weights and the set of files is_fresh vouches for; the
\* loop index, the numbers drawn so far and the weights written per file.
BaselineCalls ==
    {[random_seed |-> r, n_weights |-> n, random_weights |-> c, fresh |-> f] :
        r \in 1..MaxValue, n \in 1..MaxWeights, c \in 0..MaxFiles,
        f \in SUBSET (0..(MaxFiles - 1))}

InitBaselines ==
    /\ cfg = InitCfg
    /\ engine = 1
    /\ disk = <<>>
    /\ manifestFile = MissingFile
    /\ manifest = EmptyManifest
    /\ pc = <<>>
    /\ runs = 0
    /\ events = 0
    /\ invoked = {}
    /\ skipped = {}
    /\ saved = NothingSaved
    /\ deleted = {}
    /\ bh = NoHash
    /\ gate = "none"
    /\ prev = NoRun
    /\ probe \in {[args |-> call, out |-> [i |-> 0, drawn |-> 0, written |-> <<>>]] :
                    call \in {b \in BaselineCalls :
                                 b.fresh \subseteq 0..(b.random_weights - 1)}}

\* One turn of the loop for a file is_fresh vouches for.
BaselineSkipped ==
    /\ probe.out.i < probe.args.random_weights
    /\ probe.out.i \in probe.args.fresh
    /\ probe' = [probe EXCEPT !.out.i = @ + 1,
                              !.out.drawn = @ + SkipDraws(probe.args.n_weights)]
    /\ UNCHANGED pipeline

\* One turn of the loop for a file that is written.
BaselineWritten ==
    /\ probe.out.i < probe.args.random_weights
    /\ probe.out.i \notin probe.args.fresh
    /\ LET weights == Weights(probe.args.random_seed, probe.args.n_weights, probe.out.drawn)
       IN probe' = [probe EXCEPT
                      !.out.i = @ + 1,
                      !.out.drawn = @ + probe.args.n_weights,
                      !.out.written = [k \in DOMAIN @ \cup {probe.out.i} |->
                                          IF k = probe.out.i THEN weights ELSE @[k]]]
    /\ UNCHANGED pipeline

NextBaselines == BaselineSkipped \/ BaselineWritten

SpecBaselines == InitBaselines /\ [][NextBaselines]_vars

\* ------------------------------------------------------------------ claims
\* The stages that consume other stages' outputs, the output each owns, the
\* outputs each consumes and the fingerprint each computes.
Downstream(c) ==
    {"hsa", "ces", "random"}
    \cup (IF c.consistency # Absent /\ c.training.seeds # <<>> THEN {"consistency"} ELSE {})
DownstreamRel(d) == IF d = "consistency" THEN ConsistencyRel ELSE EvalRel(d)
UpstreamOf(d, c) ==
    IF d = "consistency" THEN {HsaWeightRel(c.training.seeds[1])} ELSE EvalWeights(d, c)
DownstreamHash(d, m, c) ==
    IF d = "consistency"
    THEN ConsistencyHash(m, HsaWeightRel(c.training.seeds[1]), c)
    ELSE EvalHash(m, EvalWeights(d, c), c.evaluation, EvalNWeights(d, c))

Persisted == Load(manifestFile)
KnownHashes ==
    {NoHash} \cup {manifest.entries[k].config_hash : k \in Keys(manifest)}
    \cup {Persisted.entries[k].config_hash : k \in Keys(Persisted)}
    \cup {disk[p] : p \in Files}

\* C1: for a non-virtual identity, is_fresh(identity, expected) is true exactly
\* when the manifest has an entry for it, the entry's fingerprint equals
\* expected and the file exists; after record(id, fp1), is_fresh(id, fp2) is
\* false for every fp2 other than fp1.
C1_IsFreshIff ==
    LET persisted == Persisted
        ids == {p \in Keys(manifest) \cup Keys(persisted) \cup Files
                      \cup ComputeExpectedFiles(cfg) : ~StartsWithUnderscore(p)}
        fps == {NoHash} \cup {manifest.entries[k].config_hash : k \in Keys(manifest)}
                 \cup {persisted.entries[k].config_hash : k \in Keys(persisted)}
                 \cup {disk[p] : p \in Files}
    IN /\ \A m \in {manifest, persisted} : \A id \in ids : \A fp \in fps :
             IsFresh(m, Files, id, fp)
                 <=> (/\ id \in DOMAIN m.entries
                      /\ m.entries[id].config_hash = fp
                      /\ id \in DOMAIN disk)
       /\ \A id \in invoked : \A fp2 \in fps \ {manifest.entries[id].config_hash} :
             ~IsFresh(manifest, Files, id, fp2)

\* In a run, one recorded output is fresh under its own fingerprint while other
\* fingerprints are around, and another entry's file has been deleted.
C1_Witness ==
    /\ Running
    /\ \E id \in Keys(manifest) :
          /\ IsFresh(manifest, Files, id, HashOf(manifest, id))
          /\ Cardinality(KnownHashes) > 2
    /\ \E id \in Keys(manifest) :
          /\ ~StartsWithUnderscore(id)
          /\ id \notin Files
          /\ ~IsFresh(manifest, Files, id, HashOf(manifest, id))

\* C2: when, in a step of a run, the fingerprint recorded for an output that a
\* downstream stage consumes changes, the fingerprint the downstream stage
\* computes changes too, and a downstream entry that was fresh before the step
\* is not fresh under the newly computed fingerprint.
C2_TransitiveInvalidation ==
    [][\A d \in Downstream(cfg) :
         (/\ Running /\ Running' /\ cfg' = cfg
          /\ \E u \in UpstreamOf(d, cfg) : HashOf(manifest', u) # HashOf(manifest, u))
         => /\ DownstreamHash(d, manifest', cfg) # DownstreamHash(d, manifest, cfg)
            /\ IsFresh(manifest, Files, DownstreamRel(d), DownstreamHash(d, manifest, cfg))
                 => ~IsFresh(manifest', DOMAIN disk', DownstreamRel(d),
                             DownstreamHash(d, manifest', cfg))]_vars

\* An upstream stage has rerun and recorded another fingerprint than the
\* persisted one, and the downstream entry, its file still there, is stale.
C2_Witness ==
    /\ Running
    /\ \E d \in Downstream(cfg) : \E u \in UpstreamOf(d, cfg) \cap invoked :
          /\ HashOf(Persisted, u) \notin {NoHash, HashOf(manifest, u)}
          /\ DownstreamRel(d) \in Keys(manifest) \cap Files
          /\ IsFresh(Persisted, Files, DownstreamRel(d), DownstreamHash(d, Persisted, cfg))
          /\ ~IsFresh(manifest, Files, DownstreamRel(d), DownstreamHash(d, manifest, cfg))

\* C3: after cleanup_orphans(manifest, expected), every key that is neither in
\* expected nor a virtual marker has lost its entry and its file; every other
\* key keeps its entry unchanged and its file untouched; no file outside the
\* orphan set is deleted.
C3_OrphanGcExact ==
    [][(At("cleanup") /\ pc' = Tail(pc)) =>
         LET expected == ComputeExpectedFiles(cfg)
             orphans == {k \in Keys(manifest) : k \notin expected /\ SubSeq(k, 1, 1) # "_"}
         IN /\ \A k \in orphans : k \notin Keys(manifest') /\ k \notin DOMAIN disk'
            /\ \A k \in Keys(manifest) \ orphans :
                  /\ k \in Keys(manifest')
                  /\ manifest'.entries[k] = manifest.entries[k]
            /\ Keys(manifest') \subseteq Keys(manifest)
            /\ \A p \in Files \ orphans : p \in DOMAIN disk' /\ disk'[p] = disk[p]
            /\ DOMAIN disk' \subseteq Files]_vars

\* cleanup_orphans has just unlinked a file and removed its entry while the
\* manifest holds a virtual marker and an expected output whose file exists.
C3_Witness ==
    /\ Running /\ gate = "kept" /\ invoked = {} /\ skipped = {}
    /\ deleted # {}
    /\ deleted \cap (Keys(manifest) \cup Files) = {}
    /\ PlotsMarker \in Keys(manifest)
    /\ \E k \in Keys(manifest) \cap ComputeExpectedFiles(cfg) : k \in Files

\* C4: when the computed engine fingerprint is non-empty and differs from the
\* stored one, the gate leaves an empty entry map and stores the computed
\* fingerprint; when it equals the stored one, the gate leaves all entries.
C4_GlobalInvalidationGate ==
    [][(At("gate") /\ pc' = Tail(pc)) =>
         /\ (bh' # NoHash /\ bh' # manifest.binary_hash)
               => (Keys(manifest') = {} /\ manifest'.binary_hash = bh')
         /\ (bh' = manifest.binary_hash)
               => manifest'.entries = manifest.entries]_vars

\* The gate has just emptied a manifest that was loaded with entries and with
\* the fingerprint of another, earlier engine.
C4_Witness ==
    /\ At("cleanup")
    /\ gate = "cleared"
    /\ Keys(Persisted) # {}
    /\ Persisted.binary_hash \notin {NoHash, bh}
    /\ bh # NoHash
    /\ manifest.binary_hash = bh
    /\ Keys(manifest) = {}

\* The outputs the stages of phase k own under configuration c.
PhaseOutputs(k, c) ==
    CASE k = 1 -> {HsaWeightRel(s) : s \in Range(c.training.seeds)}
                  \cup {HsaLogRel(s) : s \in Range(c.training.seeds)}
                  \cup {CesWeightRel(s) : s \in Range(CesSeeds(c))}
                  \cup {CesLogRel(s) : s \in Range(CesSeeds(c))}
      [] k = 2 -> {BaselineRel(i) : i \in 0..(c.baselines.random_weights - 1)}
      [] k = 3 -> {EvalRel("hsa"), EvalRel("ces"), EvalRel("random")}
      [] k = 4 -> {SweepRel(p) : p \in Range(SweepParams)}
      [] k = 5 -> {MassRel}
      [] OTHER -> {ConsistencyRel}
CompletedOutputs(k, c) == UNION {PhaseOutputs(j, c) : j \in 1..k}

\* C5: whenever a stage is skipped as fresh, the file on disk for each of its
\* outputs was written by a producer invocation whose fingerprint equals the
\* fingerprint the stage computes now.
C5_NoIncorrectSkip ==
    \A s \in skipped : s.path \in Files /\ disk[s.path] = s.h

\* C6: within one run, when an upstream stage has invoked its producer for an
\* output, no downstream stage that consumes the output is skipped.
C6_RerunPropagates ==
    \A d \in Downstream(cfg) : \A u \in UpstreamOf(d, cfg) :
        (Running /\ u \in invoked) => DownstreamRel(d) \notin SkippedPaths

\* The upstream fingerprint for u inside the fingerprint recorded for the
\* downstream output of d.
UpstreamRecordedIn(d, u, m) ==
    LET kwargs == m.entries[DownstreamRel(d)].config_hash[1]
    IN IF d = "consistency" THEN kwargs.upstream ELSE kwargs.upstream[u]

\* C6 (amended): within one run, when an upstream stage has invoked its producer
\* for an output and a downstream stage that consumes it is skipped, the
\* fingerprint the upstream stage recorded is the one the downstream entry was
\* computed from: a rerun that records another fingerprint is never followed by
\* a skip.
C6_RerunWithNewFingerprintPropagates ==
    \A d \in Downstream(cfg) : \A u \in UpstreamOf(d, cfg) :
        (Running /\ u \in invoked /\ DownstreamRel(d) \in SkippedPaths)
            => UpstreamRecordedIn(d, u, manifest) = HashOf(manifest, u)

\* In one run an upstream producer has been invoked for one output and skipped
\* for none of the downstream stage's other reasons: one downstream stage is
\* skipped behind a rerun, another has been rerun behind a rerun.
C6_Witness ==
    /\ Running
    /\ \E d \in Downstream(cfg) : \E u \in UpstreamOf(d, cfg) :
          u \in invoked /\ DownstreamRel(d) \in SkippedPaths
    /\ \E d \in Downstream(cfg) : \E u \in UpstreamOf(d, cfg) :
          u \in invoked /\ DownstreamRel(d) \in invoked

\* C7: whatever the state of .manifest.json (missing, truncated, not JSON, JSON
\* of the wrong shape), Manifest.load returns a manifest with no entries and
\* raises nothing, so no run ends in load.
C7_CorruptManifestRecovery ==
    /\ manifestFile.shape # "valid"
          => (~LoadFails(manifestFile) /\ Keys(Load(manifestFile)) = {})
    /\ prev.status # "load_error"

\* C8: when a run ends abnormally, the persisted manifest holds every entry
\* the run recorded in the phases whose save had completed.
C8_Checkpointing ==
    [][(Running /\ prev'.status = "aborted" /\ pc' = <<>>) =>
         \A p \in saved.paths :
            /\ p \in Keys(Load(manifestFile'))
            /\ Load(manifestFile').entries[p] = manifest.entries[p]]_vars

\* C9: in the run after an interrupted run, with the configuration, the engine
\* fingerprint and the files as the interrupted run left them, no producer is
\* invoked for an output of a phase the interrupted run had completed.
C9_ResumeAfterInterruption ==
    (Running /\ prev.status = "aborted" /\ prev.quiet)
        => invoked \cap CompletedOutputs(prev.phases, cfg) = {}

\* C10: in the run after a run that aborted with a stage's outputs produced and
\* the phase's save not reached, those outputs are not skipped as fresh.
C10_InterruptedPhaseIsStale ==
    (Running /\ prev.status = "aborted") => SkippedPaths \cap prev.inflight = {}

\* C11: when binary_hash() returns the empty string, the gate clears no entry:
\* the entry map after the gate is the entry map that was loaded.
C11_NoFingerprintNoWipe ==
    [][(At("gate") /\ pc' = Tail(pc) /\ bh' = NoHash)
          => manifest'.entries = manifest.entries]_vars

\* The gate has just run without an engine fingerprint on a manifest loaded
\* with entries and with the fingerprint of an earlier run, and kept them.
C11_Witness ==
    /\ At("cleanup")
    /\ bh = NoHash
    /\ Persisted.binary_hash # NoHash
    /\ Keys(Persisted) # {}
    /\ manifest.entries = Persisted.entries

\* C12: while the engine's commit stays the same, so that every fingerprint
\* binary_hash() computes has the same value, the gate removes no entry of a
\* pipeline output, also when in some runs no fingerprint could be computed.
C12_AbsenceNeverWipes ==
    [][(At("gate") /\ pc' = Tail(pc) /\ engine = 1)
          => \A k \in Keys(manifest) : ~StartsWithUnderscore(k) => k \in Keys(manifest')]_vars

\* C13: for a virtual marker (a key that starts with "_"), is_fresh(marker, fp)
\* is true whenever the manifest holds an entry for the marker with fingerprint
\* fp, whether or not a file exists at the marker's path.
C13_VirtualMarkerSkipsFileCheck ==
    \A m \in {manifest, Persisted} : \A k \in Keys(m) :
        StartsWithUnderscore(k) => IsFresh(m, Files, k, HashOf(m, k))

\* C14: after a run's cleanup_orphans, no file that an earlier run produced and
\* the configuration no longer requests is on disk, and every non-virtual key
\* of the manifest is an expected output, whatever else changed since the
\* earlier run, the engine fingerprint included.
C14_GarbageCollected ==
    [][(At("cleanup") /\ pc' = Tail(pc)) =>
         /\ DOMAIN disk' \subseteq ComputeExpectedFiles(cfg)
         /\ \A k \in Keys(manifest') :
               ~StartsWithUnderscore(k) => k \in ComputeExpectedFiles(cfg)]_vars

\* C15: saving a manifest and loading the file gives a manifest with the same
\* keys, the same fingerprint and timestamp under every key, the same engine
\* fingerprint and the same version.
C15_SaveLoadRoundTrip ==
    \A m \in {manifest, Persisted} :
        LET loaded == Load(WrittenFile(m))
        IN /\ Keys(loaded) = Keys(m)
           /\ \A k \in Keys(m) :
                 /\ loaded.entries[k].config_hash = m.entries[k].config_hash
                 /\ loaded.entries[k].produced_at = m.entries[k].produced_at
           /\ loaded.binary_hash = m.binary_hash
           /\ loaded.version = m.version

\* A save has just written a manifest with an engine fingerprint, entries of
\* two runs and a virtual marker, and loading the file gives it back.
C15_Witness ==
    /\ Running
    /\ manifestFile = WrittenFile(manifest)
    /\ Load(manifestFile) = manifest
    /\ manifest.binary_hash # NoHash
    /\ PlotsMarker \in Keys(manifest)
    /\ \E k1, k2 \in Keys(manifest) :
          manifest.entries[k1].produced_at # manifest.entries[k2].produced_at

\* C16: right after record(id, fp) with the file of id on disk, is_fresh(id, fp)
\* is true; once the file is deleted from outside, with the entry still in the
\* manifest, is_fresh(id, fp) is false.
C16_FreshnessRoundTrip ==
    [][/\ (Running /\ Running') =>
             \A id \in invoked' \ invoked :
                 /\ id \in DOMAIN disk'
                 /\ IsFresh(manifest', DOMAIN disk', id, disk'[id])
       /\ (pc = <<>> /\ pc' = <<>>) =>
             \A id \in (Files \ DOMAIN disk') \cap Keys(Load(manifestFile')) :
                 ~IsFresh(Load(manifestFile'), DOMAIN disk', id,
                          HashOf(Load(manifestFile'), id))]_vars

\* Between two runs a file has just been deleted whose entry is still in the
\* persisted manifest, and the entries of the other files are fresh.
C16_Witness ==
    /\ pc = <<>>
    /\ prev.touched
    /\ prev.status = "completed"
    /\ \E id \in Keys(Persisted) \ Files :
          /\ ~StartsWithUnderscore(id)
          /\ ~IsFresh(Persisted, Files, id, HashOf(Persisted, id))
          /\ \A other \in Keys(Persisted) \ {id, PlotsMarker} :
                IsFresh(Persisted, Files, other, HashOf(Persisted, other))

\* C17: for two argument values that are equal as Python values (the same keys
\* with equal values at every level), config_hash returns the same fingerprint
\* whatever the order in which the keys were inserted or the keyword arguments
\* were passed.
C17_FingerprintDeterminism ==
    (probe.out # <<>> /\ PyEqual(JDict(probe.args[1]), JDict(probe.args[2])))
        => probe.out[1] = probe.out[2]

\* config_hash has been called on two equal values whose keys were inserted in
\* different orders at the top level and inside a section.
C17_Witness ==
    /\ probe.out # <<>>
    /\ PyEqual(JDict(probe.args[1]), JDict(probe.args[2]))
    /\ Len(probe.args[1]) = 2
    /\ probe.args[1][1].key # probe.args[2][1].key
    /\ \E k \in ItemKeys(probe.args[1]) :
          LET v == ItemAt(probe.args[1], k)
              w == ItemAt(probe.args[2], k)
          IN Len(v.items) = 2 /\ v.items # w.items
    /\ probe.out[1] = probe.out[2]

\* C18: when deleting one orphan's file fails, cleanup_orphans still deals with
\* every other orphan: afterwards the file whose deletion failed is the only
\* orphan file left on disk.
C18_UnlinkFailureDoesNotAbort ==
    [][(At("cleanup") /\ prev'.status = "unlink_error") =>
         LET orphans == {k \in Keys(manifest) \ ComputeExpectedFiles(cfg) :
                            ~StartsWithUnderscore(k)}
         IN Cardinality(orphans \cap DOMAIN disk') <= 1]_vars

\* C19: Manifest.save is atomic: whenever a run changes .manifest.json, and
\* also when it ends in the middle of a save, the file holds the complete
\* previous manifest or the complete new one.
C19_SaveIsAtomic ==
    [][(Running /\ manifestFile' # manifestFile) => manifestFile' = WrittenFile(manifest)]_vars

\* C20: through the records, removals, gate clears and reconciliations of a
\* run, hash_of(id) is the fingerprint of the most recent record(id, .) while
\* an entry for id exists (the one just recorded, else the one it was before
\* the step) and the empty sentinel when none exists; no recorded fingerprint
\* is the sentinel.
C20_HashOfLastRecorded ==
    [][(Running /\ Running') =>
         \A id \in Keys(manifest) \cup Keys(manifest') \cup ComputeExpectedFiles(cfg) :
            IF id \in invoked' \ invoked
            THEN HashOf(manifest', id) = disk'[id] /\ disk'[id] # NoHash
            ELSE IF id \in Keys(manifest')
            THEN /\ id \in Keys(manifest)
                 /\ HashOf(manifest', id) = manifest.entries[id].config_hash
                 /\ HashOf(manifest', id) # NoHash
            ELSE HashOf(manifest', id) = NoHash]_vars

\* In one run reconciliation has removed the entry of a deleted orphan, whose
\* hash_of is now the sentinel, and a stage has recorded for an output another
\* fingerprint than the persisted one, which hash_of now returns.
C20_Witness ==
    /\ Running
    /\ gate = "kept"
    /\ \E d \in deleted : d \notin Keys(manifest) /\ HashOf(manifest, d) = NoHash
    /\ \E id \in invoked :
          /\ HashOf(Persisted, id) \notin {NoHash, HashOf(manifest, id)}
          /\ HashOf(manifest, id) = disk[id]

\* C21: record(id, fp) creates or replaces the entry of id and nothing else;
\* remove(id) deletes the entry of id and nothing else and leaves the manifest
\* as it is when id has no entry; the other entries, the version and the
\* engine fingerprint stay as they are.
C21_RecordRemoveFrame ==
    [][/\ (Running /\ Running' /\ ~At("gate") /\ ~At("cleanup")) =>
             LET recorded == invoked' \ invoked
             IN /\ Keys(manifest') = Keys(manifest) \cup recorded
                /\ \A k \in recorded : manifest'.entries[k] = ManifestEntry(disk'[k], Now)
                /\ \A k \in Keys(manifest) \ recorded :
                      manifest'.entries[k] = manifest.entries[k]
                /\ manifest'.version = manifest.version
                /\ manifest'.binary_hash = manifest.binary_hash
       /\ (At("cleanup") /\ pc' = Tail(pc)) =>
             /\ manifest'.version = manifest.version
             /\ manifest'.binary_hash = manifest.binary_hash
             /\ \A id \in ComputeExpectedFiles(cfg) \cup Keys(manifest) :
                   LET after == Remove(manifest, id)
                   IN /\ Keys(after) = Keys(manifest) \ {id}
                      /\ \A k \in Keys(after) : after.entries[k] = manifest.entries[k]
                      /\ after.version = manifest.version
                      /\ after.binary_hash = manifest.binary_hash
                      /\ id \notin Keys(manifest) => after = manifest]_vars

\* In one run cleanup_orphans has removed an entry, a stage has replaced the
\* entry of one output and the entry of another output is the persisted one.
C21_Witness ==
    /\ Running
    /\ deleted # {}
    /\ deleted \cap Keys(manifest) = {}
    /\ \E id \in invoked \cap Keys(Persisted) :
          manifest.entries[id] # Persisted.entries[id]
    /\ \E other \in Keys(manifest) \ invoked :
          /\ other \in Keys(Persisted)
          /\ manifest.entries[other] = Persisted.entries[other]
          /\ manifest.entries[other].produced_at < Now

\* C22: config_hash fails with an error on an argument that holds a value json
\* has no encoding for.
C22_NonRepresentableFails ==
    probe.out # <<>> =>
        \A i \in 1..2 :
            ~Representable(JDict(probe.args[i])) => probe.out[i] = TypeErrorRaised

\* C23: two arguments that json can encode and that differ as Python values
\* get different fingerprints.
C23_FingerprintSensitivity ==
    (/\ probe.out # <<>>
     /\ Representable(JDict(probe.args[1]))
     /\ Representable(JDict(probe.args[2]))
     /\ ~PyEqual(JDict(probe.args[1]), JDict(probe.args[2])))
        => probe.out[1] # probe.out[2]

\* config_hash has been called on two arguments with the same keys that differ
\* in one place only, the int 1 against the str "1", and has returned two
\* fingerprints.
C23_Witness ==
    /\ probe.out # <<>>
    /\ Representable(JDict(probe.args[1]))
    /\ Representable(JDict(probe.args[2]))
    /\ ItemKeys(probe.args[1]) = {"hsa", "seed"}
    /\ ItemKeys(probe.args[2]) = {"hsa", "seed"}
    /\ ItemAt(probe.args[1], "seed") = JInt(1)
    /\ ItemAt(probe.args[2], "seed") = JStr("1")
    /\ PyEqual(ItemAt(probe.args[1], "hsa"), ItemAt(probe.args[2], "hsa"))
    /\ probe.out[1] # probe.out[2]

\* C24: when the first run of the pipeline, started with no manifest entries,
\* reaches its last save, the identities its stages recorded are exactly
\* compute_expected_files(config).
C24_ProjectorLockStep ==
    (/\ runs = 1
     /\ At("save")
     /\ Tail(pc) = <<>>
     /\ skipped = {}
     /\ Keys(manifest) = invoked)
        => invoked = ComputeExpectedFiles(cfg)

\* The output identities each call of main owns and the fingerprint the call
\* computes for them; create_baselines owns each of its files on its own.
StageUnits(st, c, m) ==
    LET Unit(owned, h) == [owned |-> owned, h |-> h]
    IN CASE st.op = "train_hsa" ->
              {Unit({HsaWeightRel(st.arg), HsaLogRel(st.arg)}, HsaHash(st.arg, c))}
         [] st.op = "train_ces" ->
              {Unit({CesWeightRel(st.arg), CesLogRel(st.arg)}, CesHash(st.arg, c))}
         [] st.op = "baselines" ->
              {Unit({BaselineRel(i)}, BaselineHash(c)) :
                  i \in 0..(c.baselines.random_weights - 1)}
         [] st.op = "eval" ->
              {Unit({EvalRel(st.arg)},
                    EvalHash(m, EvalWeights(st.arg, c), c.evaluation, EvalNWeights(st.arg, c)))}
         [] st.op = "sweep" -> {Unit({SweepRel(st.arg)}, SweepHash(st.arg, c))}
         [] st.op = "mass" -> {Unit({MassRel}, MassHash(c))}
         [] st.op = "consistency" ->
              {Unit({ConsistencyRel},
                    ConsistencyHash(m, HsaWeightRel(c.training.seeds[1]), c))}
         [] OTHER -> {}

\* C25: a stage call that returns leaves the entries and files of the outputs
\* it owns as they are and invokes no producer when every one of them is fresh
\* under the fingerprint it computes; otherwise it has invoked the producer and
\* recorded that fingerprint for every one of them.
C25_StageProtocol ==
    [][(Running /\ pc' = Tail(pc)) =>
          \A u \in StageUnits(Current, cfg, manifest) :
              IF \A p \in u.owned : IsFresh(manifest, Files, p, u.h)
              THEN \A p \in u.owned :
                      /\ manifest'.entries[p] = manifest.entries[p]
                      /\ disk'[p] = disk[p]
                      /\ p \in invoked' <=> p \in invoked
              ELSE \A p \in u.owned :
                      /\ p \in invoked'
                      /\ p \in DOMAIN disk'
                      /\ disk'[p] = u.h
                      /\ p \in Keys(manifest')
                      /\ manifest'.entries[p] = ManifestEntry(u.h, Now)]_vars

\* The place of each call in the order of main: gate, reconciliation, then the
\* stages training, baselines, evaluation, sweeps, mass-optimize, consistency.
PhaseRank(op) ==
    CASE op = "gate" -> 0
      [] op = "cleanup" -> 1
      [] op \in {"train_hsa", "train_ces"} -> 2
      [] op = "baselines" -> 3
      [] op = "eval" -> 4
      [] op = "sweep" -> 5
      [] op = "mass" -> 6
      [] op = "consistency" -> 7
      [] OTHER -> 8

\* C26: a run loads the manifest first, then makes its calls one after the
\* other: the gate, then the reconciliation, once, then the stages in the order
\* training, baselines, evaluation, sweeps, mass-optimize, consistency; only
\* the gate decides on invalidation, only the reconciliation deletes, and only
\* a stage invokes a producer or skips.
C26_Ordering ==
    [][/\ (~Running /\ Running') =>
             LET calls == {i \in DOMAIN pc' : pc'[i].op # "save"}
             IN /\ manifest' = Load(manifestFile)
                /\ pc'[1].op = "gate"
                /\ pc'[2].op = "cleanup"
                /\ \A i \in calls : i > 2 => PhaseRank(pc'[i].op) \in 2..7
                /\ \A i, j \in calls : i < j => PhaseRank(pc'[i].op) <= PhaseRank(pc'[j].op)
       /\ (Running /\ Running') =>
             /\ pc' = Tail(pc)
             /\ gate' # gate => At("gate")
             /\ deleted' # deleted => At("cleanup")
             /\ (invoked' # invoked \/ skipped' # skipped) =>
                   /\ PhaseRank(Current.op) \in 2..7
                   /\ gate # "none"]_vars

\* A run that has made every kind of call, sweeps and mass-optimize included,
\* some invoking their producer and some skipping, is at its last save.
C26_Witness ==
    /\ At("save")
    /\ Tail(pc) = <<>>
    /\ gate # "none"
    /\ {HsaWeightRel(1), CesWeightRel(1), BaselineRel(0), EvalRel("hsa"),
        MassRel, ConsistencyRel} \subseteq invoked \cup SkippedPaths
    /\ MassRel \in SkippedPaths
    /\ \E param \in Range(SweepParams) : SweepRel(param) \in invoked

\* C27: once the gate of a run is past, the engine fingerprint the manifest
\* stores is the one the run computed, the empty one included, whether the
\* gate cleared the entries or kept them.
C27_GateStoresEngineFingerprint ==
    (Running /\ gate # "none") =>
        /\ manifest.binary_hash = bh
        /\ bh \in {BinaryHash(engine, git_ok) : git_ok \in BOOLEAN}

\* A run whose engine fingerprint came out empty has passed the gate while
\* .manifest.json still holds the fingerprint an earlier run stored.
C27_Witness ==
    /\ Running
    /\ gate = "kept"
    /\ bh = NoHash
    /\ Persisted.binary_hash # NoHash
    /\ Keys(manifest) # {}
    /\ manifest.binary_hash = NoHash

\* C28: a run that follows a completed run, with config.toml, the engine
\* fingerprint, the output files and .manifest.json as that run left them,
\* deletes no file, invokes no producer and keeps the fingerprint of every
\* entry.
C28_IdempotentRerun ==
    (Running /\ prev.status = "completed" /\ prev.quiet) =>
        /\ deleted = {}
        /\ invoked = {}
        /\ Keys(manifest) = Keys(Persisted)
        /\ \A k \in Keys(manifest) : HashOf(manifest, k) = HashOf(Persisted, k)

\* Such a run is at its last save: the gate kept the entries and every stage
\* found its outputs fresh.
C28_Witness ==
    /\ At("save")
    /\ Tail(pc) = <<>>
    /\ prev.status = "completed"
    /\ prev.quiet
    /\ gate = "kept"
    /\ invoked = {}
    /\ {HsaWeightRel(1), HsaLogRel(1), CesWeightRel(1), BaselineRel(0),
        EvalRel("hsa"), EvalRel("random"), ConsistencyRel} \subseteq SkippedPaths
    /\ SkippedPaths = Keys(manifest) \ {PlotsMarker}

\* C29: when a plot run has recorded _plots_marker and nothing has happened
\* since, a plot run that starts now finds the marker fresh under the inputs
\* fingerprint it computes, and skips.
C29_PlotRunSkipsWhenUnchanged ==
    (/\ pc = <<>>
     /\ ~LoadFails(manifestFile)
     /\ PlotsMarker \in Keys(Persisted)
     /\ Persisted.entries[PlotsMarker].produced_at = Now
     /\ prev.touched)
        => IsFresh(Persisted, Files, PlotsMarker, PlotInputsHash(Persisted))

\* C30: when seeds are added to or removed from the seed lists between runs,
\* a training stage whose seed was configured before, so that its outputs are
\* recorded and on disk, does not invoke its producer.
C30_PerSeedIndependence ==
    [][((At("train_hsa") \/ At("train_ces")) /\ pc' = Tail(pc)) =>
          \A u \in StageUnits(Current, cfg, manifest) :
              u.owned \subseteq Keys(manifest) \cap Files => invoked' = invoked]_vars

\* C31: the weights create_baselines writes to baseline file i are numbers
\* i * n_weights to (i + 1) * n_weights - 1 of the generator seeded with
\* random_seed, whichever of the files before it were skipped as fresh.
C31_BaselineRngInSync ==
    \A i \in DOMAIN probe.out.written :
        probe.out.written[i] =
            [j \in 1..probe.args.n_weights |->
                Draw(probe.args.random_seed, i * probe.args.n_weights + j - 1)]

\* create_baselines has gone through its files: it wrote one, skipped the
\* next and wrote the one after it, each of more than one weight.
C31_Witness ==
    /\ probe.out.i = probe.args.random_weights
    /\ probe.args.n_weights > 1
    /\ \E i \in DOMAIN probe.out.written :
          /\ i + 1 \in probe.args.fresh
          /\ i + 2 \in DOMAIN probe.out.written
          /\ probe.out.written[i + 2] # probe.out.written[i]

====
